---- MODULE Spec2Model ----
(***************************************************************************)
(* Message lifecycle and real-time fanout of the chat backend:            *)
(* the message store with its status fields, the socket.io connection      *)
(* table and rooms, the receipt handlers (markAsDelivered, markAsRead),    *)
(* the status updates of the send path (updateMessageStatus, retry), the   *)
(* bulk read (markAllMessagesAsRead), the auto-delivery sweeps and the     *)
(* two emitters (emitSocketEvent, emitToUser).                             *)
(*                                                                         *)
(* Every handler is async: each await on the datastore ends an atomic      *)
(* step, so a handler is a chain of actions and handlers interleave at     *)
(* their awaits.  The continuation of a handler that is waiting is a       *)
(* record in the bag inflight (or the pc of its connection).               *)
(***************************************************************************)
EXTENDS Integers, Sequences, FiniteSets, Bags, TLC

\* ---------------------------------------------------------------- bounds
MaxMsgs == 1
MaxTime == 1
MaxInflight == 1

\* ------------------------------------------------------- program constants
ConnectSweepLimit == 50
ConnectSweepWindow == 86400000
JoinSweepLimit == 20
JoinSweepWindow == 604800000

\* ------------------------------------------------------------ fixed data
Users == {"u1", "u2"}
\* a registered user who is a participant of no chat
Outsider == "u3"
Accounts == Users \cup {Outsider}
Chats == {"c1"}
Conns == {"s1", "s2"}
Msgs == 1..MaxMsgs
Reasons == {"network"}

\* Chat.participants
participants == [c \in Chats |-> <<"u1", "u2">>]

\* chatRepo.getCurrentUserAllChats
getCurrentUserAllChats(u) ==
  {c \in Chats : \E i \in 1..Len(participants[c]) : participants[c][i] = u}

\* enum MessageStatus
MessageStatus == {"pending", "sending", "sent", "delivered", "read", "failed"}

Unset == 0 - 1
NoMsg == [exists |-> FALSE]
NoUser == "none"
NoConn == "none"

VARIABLES
  messages,   \* Message collection: id -> document, or NoMsg
  online,     \* User.status of every user
  sockets,    \* io.sockets.sockets: connection -> [live, user, pc]
  rooms,      \* io.adapter.rooms: room id -> set of connections
  inflight,   \* bag of continuations of handlers waiting on an await
  now,        \* the clock read by new Date()
  calls,      \* emitSocketEvent / emitToUser calls made by the last step
  emitted,    \* bag of socket.emit deliveries made by the last step
  last,       \* what the last handler step was and how it ended
  scenario,   \* the receipt pair under test and the document it started from
  unreadCount, \* Chat.unreadCount of every chat: user -> unread messages
  lastMessage, \* Chat.lastMessage of every chat and the fields kept with it
  defaultGroup \* the Chat documents with the id or the name of the default group

vars == <<messages, online, sockets, rooms, inflight, now, calls, emitted, last, scenario,
          unreadCount, lastMessage, defaultGroup>>

\* Chat.unreadCount default: an empty Map, every lookup read with "|| 0"
NoCounts == [c \in Chats |-> [u \in Users |-> 0]]

\* Chat.lastMessage default: no message
NoLast == [c \in Chats |-> 0]

\* messageRepo.getLastMessage: the newest message of the chat, 0 for none
getLastMessage(docs, c) ==
  LET ms == {m \in DOMAIN docs : docs[m].exists /\ docs[m].chat = c}
  IN IF ms = {} THEN 0 ELSE CHOOSE m \in ms : \A k \in ms : k <= m

\* Chat.lastMessage of every chat when each send has run to its end
LastOf(docs) == [c \in Chats |-> getLastMessage(docs, c)]

RoomIds == Accounts \cup Chats

\* ------------------------------------------------------------- sequences
Has(seq, x) == \E i \in 1..Len(seq) : seq[i] = x

Count(seq, x) == Cardinality({i \in 1..Len(seq) : seq[i] = x})

ToSet(seq) == {seq[i] : i \in 1..Len(seq)}

\* MongoDB $push on an array field: appends whether or not x is present
Push(seq, x) == Append(seq, x)

\* MongoDB $addToSet on an array field
AddToSet(seq, x) == IF Has(seq, x) THEN seq ELSE Append(seq, x)

\* the members of a set of numbers in rising order
SetToSeq(S) ==
  [i \in 1..Cardinality(S) |->
     CHOOSE x \in S : Cardinality({y \in S : y <= x}) = i]

\* a find with no limit
LimitNone(seq, n) == seq

\* Query.limit(n)
Limit(seq, n) == IF Len(seq) <= n THEN seq ELSE SubSeq(seq, 1, n)

\* --------------------------------------------------------- message store
Exists(m) == messages[m].exists

\* messageRepo.createMessage
createMessage(userId, chatId, t) ==
  [exists |-> TRUE, sender |-> userId, chat |-> chatId,
   status |-> "pending", readBy |-> <<>>, deliveredTo |-> <<>>,
   retryCount |-> 0, failureReason |-> "",
   sentAt |-> Unset, deliveredAt |-> Unset, readAt |-> Unset,
   createdAt |-> t, updatedAt |-> t]

\* the update document without its $addToSet
DeliveredUpdateNoAdd(doc, userId, seen, t) ==
  [doc EXCEPT !.deliveredAt = t,
              !.updatedAt = t,
              !.status = IF seen \in {"pending", "sending"} THEN "delivered" ELSE @]

\* markAsDelivered: the update document applied by findByIdAndUpdate;
\* seen is the status the handler read before the await
DeliveredUpdate(doc, userId, seen, t) ==
  [doc EXCEPT !.deliveredTo = AddToSet(@, userId),
              !.deliveredAt = t,
              !.updatedAt = t,
              !.status = IF seen \in {"pending", "sending"} THEN "delivered" ELSE @]

\* markAsRead: the update document applied by findByIdAndUpdate
ReadUpdate(doc, userId, t) ==
  [doc EXCEPT !.readBy = AddToSet(@, userId),
              !.deliveredTo = AddToSet(@, userId),
              !.readAt = t,
              !.updatedAt = t,
              !.status = "read",
              !.deliveredAt = t]

\* updateData without the retryCount line of the FAILED case
StatusUpdateKeepCount(doc, newStatus, rc, reason, t) ==
  [doc EXCEPT !.status = newStatus,
              !.updatedAt = t,
              !.sentAt = IF newStatus = "sent" THEN t ELSE @,
              !.failureReason = IF newStatus = "failed" THEN reason ELSE @]

\* updateMessageStatus: updateData for the statuses the callers pass
\* (sent, failed, pending), none of them with a userId
StatusUpdate(doc, newStatus, rc, reason, t) ==
  [doc EXCEPT !.status = newStatus,
              !.updatedAt = t,
              !.sentAt = IF newStatus = "sent" THEN t ELSE @,
              !.failureReason = IF newStatus = "failed" THEN reason ELSE @,
              !.retryCount = IF newStatus = "failed" THEN rc + 1 ELSE @]

\* the filter without its readBy test
AllReadFilterAnyReader(doc, chatId, userId) ==
  /\ doc.exists
  /\ doc.chat = chatId
  /\ doc.sender # userId

\* messageRepo.markAllMessagesAsRead: the filter of updateMany
AllReadFilter(doc, chatId, userId) ==
  /\ doc.exists
  /\ doc.chat = chatId
  /\ doc.sender # userId
  /\ ~Has(doc.readBy, userId)

\* messageRepo.markAllMessagesAsRead: the update of updateMany; the
\* pre-update hook of the schema sets updatedAt
AllReadUpdate(doc, userId, t) ==
  [doc EXCEPT !.readBy = AddToSet(@, userId), !.updatedAt = t]

\* ------------------------------------------------------ connection table
\* prior: the live connections the user had when this one connected, kept
\* until the connection handler has run to its end
Closed == [live |-> FALSE, user |-> NoUser, pc |-> "closed", todo |-> <<>>, seen |-> "",
           prior |-> 0]

\* the sockets of io.sockets.sockets whose socket.user is userId
SocketsOf(userId) == {s \in Conns : sockets[s].live /\ sockets[s].user = userId}

\* ----------------------------------------------------------------- emitters
\* io.emit: every connected socket, whatever rooms it joined
emitAll(roomId) == SetToBag({s \in Conns : sockets[s].live})

\* emitSocketEvent: the connections that socket.emit / io.in(roomId).emit reach
emitSocketEvent(roomId) ==
  LET room == IF roomId \in DOMAIN rooms THEN rooms[roomId] ELSE {}
      clientCount == Cardinality(room)
  IN IF clientCount = 0
     THEN SetToBag({s \in Conns : sockets[s].live /\ sockets[s].user = roomId})
     ELSE SetToBag(room)

\* an emitter that stops at the first socket of the user
emitToOneSocket(userId) ==
  LET S == {s \in Conns : sockets[s].live /\ sockets[s].user = userId}
  IN IF S = {} THEN EmptyBag ELSE SetToBag({CHOOSE s \in S : TRUE})

\* emitToUser: every socket of io.sockets.sockets owned by userId
emitToUser(userId) ==
  SetToBag({s \in Conns : sockets[s].live /\ sockets[s].user = userId})

\* sendMessage: room.forEach over the chat room, skipping the sender's sockets
emitRoomExcept(roomId, userId) ==
  SetToBag({s \in rooms[roomId] : sockets[s].live /\ sockets[s].user # userId})

\* socket.broadcast.emit: every connected socket but the emitting one
broadcastEmit(s) == SetToBag({t \in Conns : sockets[t].live /\ t # s})

\* socket.emit on one socket; an emit on a closed socket is dropped
socketEmit(s) == SetToBag({t \in Conns : sockets[t].live /\ t = s})

\* io.sockets.emit: every connected socket
ioEmit == SetToBag({t \in Conns : sockets[t].live})

Call(fn, target, event, m, status) ==
  [fn |-> fn, target |-> target, event |-> event, m |-> m, status |-> status,
   except |-> NoUser]

Recipients(c) ==
  CASE c.fn = "room" -> emitSocketEvent(c.target)
    [] c.fn = "user" -> emitToUser(c.target)
    [] c.fn = "roomExcept" -> emitRoomExcept(c.target, c.except)
    [] c.fn = "broadcast" -> broadcastEmit(c.target)
    [] c.fn = "all" -> ioEmit
    [] OTHER -> socketEmit(c.target)

\* the deliveries of a sequence of emitter calls, one entry per
\* (call, connection) with the number of times the event reached it
Deliveries(cs) ==
  LET D == UNION {{[call |-> i, to |-> s, event |-> cs[i].event, m |-> cs[i].m,
                    status |-> cs[i].status] : s \in BagToSet(Recipients(cs[i]))}
                  : i \in 1..Len(cs)}
  IN [d \in D |-> CopiesIn(d.to, Recipients(cs[d.call]))]

Emit(cs) == /\ calls' = cs
            /\ emitted' = Deliveries(cs)

\* ------------------------------------------------------------ continuations
BaseOp == [op |-> "", m |-> 0, u |-> NoUser, conn |-> NoConn, c |-> "",
           seen |-> "", st |-> "", rc |-> 0, reason |-> "", origin |-> "",
           todo |-> <<>>, n |-> 0, counts |-> <<>>]

Ops == BagToSet(inflight)

Room == BagCardinality(inflight) < MaxInflight

Start(o) == inflight' = inflight (+) SetToBag({o})

Finish(o) == inflight' = inflight (-) SetToBag({o})

Become(o, o2) == inflight' = (inflight (-) SetToBag({o})) (+) SetToBag({o2})

Done(op, m, u, conn, res) ==
  last' = [op |-> op, m |-> m, u |-> u, conn |-> conn, res |-> res, n |-> 0]

\* -------------------------------------------------------------------- Init
Init ==
  /\ messages = [m \in Msgs |-> NoMsg]
  /\ online = [u \in Accounts |-> FALSE]
  /\ sockets = [s \in Conns |-> Closed]
  /\ rooms = [r \in RoomIds |-> {}]
  /\ inflight = EmptyBag
  /\ unreadCount = NoCounts
  /\ lastMessage = NoLast
  /\ defaultGroup = <<>>
  /\ now = 0
  /\ calls = <<>>
  /\ emitted = EmptyBag
  /\ last = [op |-> "init", m |-> 0, u |-> NoUser, conn |-> NoConn, res |-> "", n |-> 0]
  /\ scenario = [kind |-> "none", m |-> 0, u |-> NoUser, before |-> NoMsg, n |-> 0,
                 overlap |-> FALSE]

\* the clock advances between any two steps
Tick ==
  /\ now < MaxTime
  /\ now' = now + 1
  /\ UNCHANGED <<messages, online, sockets, rooms, inflight, calls, emitted, last,
                 scenario, unreadCount, lastMessage, defaultGroup>>

\* ------------------------------------------------------- auto-delivery sweep
\* AutoDeliveryService.markPendingMessagesAsDelivered: the MessageModel.find
\* filter over the caller's chats, limited to 50
pendingMessages(userId) ==
  Limit(SetToSeq({m \in DOMAIN messages :
          /\ messages[m].exists
          /\ messages[m].chat \in getCurrentUserAllChats(userId)
          /\ messages[m].sender # userId
          /\ ~Has(messages[m].deliveredTo, userId)
          /\ messages[m].status \in {"sent", "pending"}
          /\ messages[m].createdAt >= now - ConnectSweepWindow}),
        ConnectSweepLimit)

\* AutoDeliveryService.markChatMessagesAsDelivered: the MessageModel.find
\* filter over one chat, limited to 20
undeliveredMessages(userId, chatId) ==
  Limit(SetToSeq({m \in DOMAIN messages :
          /\ messages[m].exists
          /\ messages[m].chat = chatId
          /\ messages[m].sender # userId
          /\ ~Has(messages[m].deliveredTo, userId)
          /\ messages[m].status \in {"sent", "pending"}
          /\ messages[m].createdAt >= now - JoinSweepWindow}),
        JoinSweepLimit)

\* the connection handler after the sweep: the online broadcasts, the
\* connected event, and the mounting of the socket's event handlers
ConnectedCalls(s, u) ==
  <<Call("broadcast", s, "userOnline", 0, "online"),
    Call("broadcast", s, "userStatusUpdate", 0, "online"),
    Call("socket", s, "connected", 0, "online")>>

\* mountJoinChatEvent after its sweep: the chatJoined confirmation
JoinedCalls(s) == <<Call("socket", s, "chatJoined", 0, "")>>

\* message.chat.toString() on a message read with populate('chat'): chat is
\* the Chat document, and Document.prototype.toString renders the whole
\* document, not its id
ChatToString(c) == IF c = "c1" THEN "{ _id: c1, participants: [ u1, u2 ] }" ELSE "{}"

\* markAsDelivered: the two emits after a successful update
DeliveredCalls(doc, m) ==
  <<Call("room", ChatToString(doc.chat), "messageDelivered", m, doc.status),
    Call("user", doc.sender, "messageStatusUpdate", m, doc.status)>>

\* markAsRead: the three emits after a successful update
ReadCalls(doc, m) ==
  <<Call("room", ChatToString(doc.chat), "messageRead", m, doc.status),
    Call("room", ChatToString(doc.chat), "messageStatusUpdate", m, "read"),
    Call("user", doc.sender, "messageStatusUpdate", m, "read")>>

\* updateMessageStatus: the two emits after a successful update
StatusCalls(doc, m, newStatus) ==
  <<Call("room", doc.chat, "messageStatusUpdate", m, newStatus),
    Call("user", doc.sender, "messageStatusUpdate", m, newStatus)>>

\* the early returns without the test of the sender
DeliveredCheckAnyUser(doc, userId) ==
  IF ~doc.exists THEN "notFound"
  ELSE IF Has(doc.deliveredTo, userId) THEN "already"
  ELSE "proceed"

ReadCheckAnyUser(doc, userId) ==
  IF ~doc.exists THEN "notFound"
  ELSE IF Has(doc.readBy, userId) THEN "already"
  ELSE "proceed"

\* markAsDelivered / markAsRead: the early returns after findById
\* (not found, own message, already recorded)
DeliveredCheck(doc, userId) ==
  IF ~doc.exists THEN "notFound"
  ELSE IF doc.sender = userId THEN "skipSelf"
  ELSE IF Has(doc.deliveredTo, userId) THEN "already"
  ELSE "proceed"

ReadCheck(doc, userId) ==
  IF ~doc.exists THEN "notFound"
  ELSE IF doc.sender = userId THEN "skipSelf"
  ELSE IF Has(doc.readBy, userId) THEN "already"
  ELSE "proceed"

\* ------------------------------------------------------ connection handler
\* io.on("connection"): token validated, socket.user set, personal room joined
Connect(s, u) ==
  /\ ~sockets[s].live
  /\ \A o \in Ops : o.conn # s
  /\ sockets' = [sockets EXCEPT ![s] = [Closed EXCEPT !.live = TRUE, !.user = u,
                                                      !.pc = "joined",
                                                      !.prior = Cardinality(SocketsOf(u))]]
  /\ rooms' = [rooms EXCEPT ![u] = @ \cup {s}]
  /\ Emit(<<>>)
  /\ Done("connect", 0, u, s, "joined")
  /\ UNCHANGED <<messages, online, inflight, now, scenario, unreadCount, lastMessage,
                 defaultGroup>>

\* userRepo.findByIdAndUpdate(userId, {status: true})
ConnectOnline(s) ==
  /\ sockets[s].live /\ sockets[s].pc = "joined"
  /\ online' = [online EXCEPT ![sockets[s].user] = TRUE]
  /\ sockets' = [sockets EXCEPT ![s].pc = "online"]
  /\ Emit(<<>>)
  /\ Done("connect", 0, sockets[s].user, s, "online")
  /\ UNCHANGED <<messages, rooms, inflight, now, scenario, unreadCount, lastMessage,
                 defaultGroup>>

\* autoJoinUserChats: socket.join of every chat of the user, then
\* markPendingMessagesAsDelivered up to its query; with no match the
\* connection handler runs on to its end at once
autoJoinUserChats(s) ==
  /\ sockets[s].live /\ sockets[s].pc = "online"
  /\ rooms' = [r \in RoomIds |->
                 IF r \in getCurrentUserAllChats(sockets[s].user)
                 THEN rooms[r] \cup {s} ELSE rooms[r]]
  /\ LET u == sockets[s].user
         found == pendingMessages(u)
     IN IF found = <<>>
        THEN /\ sockets' = [sockets EXCEPT ![s].pc = "ready", ![s].prior = 0]
             /\ Emit(ConnectedCalls(s, u))
             /\ Done("connect", 0, u, s, "ready")
        ELSE /\ sockets' = [sockets EXCEPT ![s].pc = "sweep", ![s].todo = found]
             /\ Emit(<<>>)
             /\ Done("connect", 0, u, s, "sweep")
  /\ UNCHANGED <<messages, online, inflight, now, scenario, unreadCount, lastMessage,
                 defaultGroup>>

\* the connect sweep moves to its next message, or the connection handler
\* runs on to its end; cs are the emits of the step
ConnectSweepNext(s, cs, m, res) ==
  LET rest == Tail(sockets[s].todo)
      u == sockets[s].user
  IN IF rest # <<>>
     THEN /\ sockets' = [sockets EXCEPT ![s].todo = rest, ![s].seen = ""]
          /\ Emit(cs)
          /\ Done("sweep", m, u, s, res)
     ELSE /\ sockets' = [sockets EXCEPT ![s].todo = <<>>, ![s].seen = "",
                                        ![s].pc = "ready", ![s].prior = 0]
          /\ Emit(cs \o ConnectedCalls(s, u))
          /\ Done("sweepDone", m, u, s, res)

\* markAsDelivered called by the connect sweep: findById and early returns
ConnectSweepRead(s) ==
  /\ sockets[s].live /\ sockets[s].pc = "sweep" /\ sockets[s].seen = ""
  /\ LET m == Head(sockets[s].todo)
         res == DeliveredCheck(messages[m], sockets[s].user)
     IN IF res = "proceed"
        THEN /\ sockets' = [sockets EXCEPT ![s].seen = messages[m].status]
             /\ Emit(<<>>)
             /\ Done("sweep", m, sockets[s].user, s, "read")
        ELSE ConnectSweepNext(s, <<>>, m, res)
  /\ UNCHANGED <<messages, online, rooms, inflight, now, scenario, unreadCount,
                 lastMessage, defaultGroup>>

\* markAsDelivered called by the connect sweep: findByIdAndUpdate and emits
ConnectSweepWrite(s) ==
  /\ sockets[s].live /\ sockets[s].pc = "sweep" /\ sockets[s].seen # ""
  /\ LET m == Head(sockets[s].todo)
         updated == DeliveredUpdate(messages[m], sockets[s].user, sockets[s].seen, now)
     IN IF ~messages[m].exists
        THEN /\ ConnectSweepNext(s, <<>>, m, "notFound")
             /\ UNCHANGED messages
        ELSE /\ messages' = [messages EXCEPT ![m] = updated]
             /\ ConnectSweepNext(s, DeliveredCalls(updated, m), m, "updated")
  /\ UNCHANGED <<online, rooms, inflight, now, scenario, unreadCount, lastMessage,
                 defaultGroup>>

\* mountJoinChatEvent: socket.join(chatId), then markChatMessagesAsDelivered
\* up to its query
JoinChat(s, c) ==
  /\ sockets[s].live /\ sockets[s].pc = "ready"
  /\ rooms' = [rooms EXCEPT ![c] = @ \cup {s}]
  /\ LET u == sockets[s].user
         found == undeliveredMessages(u, c)
     IN IF found = <<>>
        THEN /\ Emit(JoinedCalls(s))
             /\ Done("join", 0, u, s, "joined")
             /\ UNCHANGED inflight
        ELSE /\ Room
             /\ Start([BaseOp EXCEPT !.op = "sweep", !.c = c,
                                     !.u = u, !.conn = s, !.todo = found])
             /\ Emit(<<>>)
             /\ Done("join", 0, u, s, "sweep")
  /\ UNCHANGED <<messages, online, sockets, now, scenario, unreadCount, lastMessage,
                 defaultGroup>>

\* the join sweep moves to its next message, or mountJoinChatEvent runs on
\* to its chatJoined confirmation
JoinSweepNext(o, cs, m, res) ==
  LET rest == Tail(o.todo)
  IN IF rest # <<>>
     THEN /\ Become(o, [o EXCEPT !.todo = rest, !.seen = ""])
          /\ Emit(cs)
          /\ Done("joinSweep", m, o.u, o.conn, res)
     ELSE /\ Finish(o)
          /\ Emit(cs \o JoinedCalls(o.conn))
          /\ Done("joinDone", m, o.u, o.conn, res)

\* markAsDelivered called by the join sweep: findById and early returns
JoinSweepRead(o) ==
  /\ o.op = "sweep" /\ o.seen = ""
  /\ LET m == Head(o.todo)
         res == DeliveredCheck(messages[m], o.u)
     IN IF res = "proceed"
        THEN /\ Become(o, [o EXCEPT !.seen = messages[m].status])
             /\ Emit(<<>>)
             /\ Done("joinSweep", m, o.u, o.conn, "read")
        ELSE JoinSweepNext(o, <<>>, m, res)
  /\ UNCHANGED <<messages, online, sockets, rooms, now, scenario, unreadCount,
                 lastMessage, defaultGroup>>

\* markAsDelivered called by the join sweep: findByIdAndUpdate and emits
JoinSweepWrite(o) ==
  /\ o.op = "sweep" /\ o.seen # ""
  /\ LET m == Head(o.todo)
         updated == DeliveredUpdate(messages[m], o.u, o.seen, now)
     IN IF ~messages[m].exists
        THEN /\ JoinSweepNext(o, <<>>, m, "notFound")
             /\ UNCHANGED messages
        ELSE /\ messages' = [messages EXCEPT ![m] = updated]
             /\ JoinSweepNext(o, DeliveredCalls(updated, m), m, "updated")
  /\ UNCHANGED <<online, sockets, rooms, now, scenario, unreadCount, lastMessage,
                 defaultGroup>>

\* the client closes a connected socket: it leaves io.sockets.sockets and
\* every room, and the disconnect handler issues its status write
Disconnect(s) ==
  /\ sockets[s].live /\ sockets[s].pc = "ready"
  /\ Room
  /\ sockets' = [sockets EXCEPT ![s] = Closed]
  /\ rooms' = [r \in RoomIds |-> rooms[r] \ {s}]
  /\ Start([BaseOp EXCEPT !.op = "disconnect", !.u = sockets[s].user, !.conn = s,
                          !.n = Cardinality(SocketsOf(sockets[s].user) \ {s})])
  /\ Emit(<<>>)
  /\ Done("disconnect", 0, sockets[s].user, s, "closed")
  /\ UNCHANGED <<messages, online, now, scenario, unreadCount, lastMessage,
                 defaultGroup>>

\* disconnect handler: userRepo.findByIdAndUpdate(status: false), broadcasts
DisconnectWrite(o) ==
  /\ o.op = "disconnect"
  /\ online' = [online EXCEPT ![o.u] = FALSE]
  /\ Finish(o)
  /\ Emit(<<Call("broadcast", o.conn, "userOffline", 0, "offline"),
            Call("broadcast", o.conn, "userStatusUpdate", 0, "offline")>>)
  /\ last' = [op |-> "disconnect", m |-> 0, u |-> o.u, conn |-> o.conn,
              res |-> "offline", n |-> o.n]
  /\ UNCHANGED <<messages, sockets, rooms, now, scenario, unreadCount, lastMessage,
                 defaultGroup>>

\* ---------------------------------------------------------- client receipts
\* mountMessageDeliveredEvent -> markAsDelivered: findById and early returns
DeliveredReceive(s, m) ==
  /\ sockets[s].live /\ sockets[s].pc = "ready"
  /\ LET u == sockets[s].user
         res == DeliveredCheck(messages[m], u)
     IN /\ IF res = "proceed"
           THEN Start([BaseOp EXCEPT !.op = "delivered", !.m = m, !.u = u,
                                     !.conn = s, !.seen = messages[m].status])
           ELSE UNCHANGED inflight
        /\ Done("delivered", m, u, s, res)
  /\ Emit(<<>>)
  /\ UNCHANGED <<messages, online, sockets, rooms, now, unreadCount, lastMessage,
                 defaultGroup>>

DeliveredBegin(s, m) ==
  /\ DeliveredReceive(s, m)
  /\ BagCardinality(inflight') <= MaxInflight
  /\ UNCHANGED scenario

\* the update step reporting a vanished message to the connection
DeliveredWriteReport(o) ==
  /\ o.op = "delivered"
  /\ Finish(o)
  /\ LET updated == DeliveredUpdate(messages[o.m], o.u, o.seen, now)
     IN IF ~messages[o.m].exists
        THEN /\ UNCHANGED messages
             /\ Emit(<<Call("socket", o.conn, "socketError", o.m, "")>>)
             /\ Done("delivered", o.m, o.u, o.conn, "notUpdated")
        ELSE /\ messages' = [messages EXCEPT ![o.m] = updated]
             /\ Emit(DeliveredCalls(updated, o.m))
             /\ Done("delivered", o.m, o.u, o.conn, "updated")
  /\ UNCHANGED <<online, sockets, rooms, now, scenario, unreadCount, lastMessage,
                 defaultGroup>>

\* a delivery write that also clears the recipient's unread counter
DeliveredWriteLedger(o) ==
  /\ o.op = "delivered"
  /\ Finish(o)
  /\ LET updated == DeliveredUpdate(messages[o.m], o.u, o.seen, now)
     IN IF ~messages[o.m].exists
        THEN /\ UNCHANGED <<messages, unreadCount>>
             /\ Emit(<<>>)
             /\ Done("delivered", o.m, o.u, o.conn, "notUpdated")
        ELSE /\ messages' = [messages EXCEPT ![o.m] = updated]
             /\ unreadCount' = [unreadCount EXCEPT ![updated.chat][o.u] = 0]
             /\ Emit(DeliveredCalls(updated, o.m))
             /\ Done("delivered", o.m, o.u, o.conn, "updated")
  /\ UNCHANGED <<online, sockets, rooms, now, scenario, lastMessage, defaultGroup>>

\* markAsDelivered: findByIdAndUpdate and the emits
DeliveredWrite(o) ==
  /\ o.op = "delivered"
  /\ Finish(o)
  /\ LET updated == DeliveredUpdate(messages[o.m], o.u, o.seen, now)
     IN IF ~messages[o.m].exists
        THEN /\ UNCHANGED messages
             /\ Emit(<<>>)
             /\ Done("delivered", o.m, o.u, o.conn, "notUpdated")
        ELSE /\ messages' = [messages EXCEPT ![o.m] = updated]
             /\ Emit(DeliveredCalls(updated, o.m))
             /\ Done("delivered", o.m, o.u, o.conn, "updated")
  /\ UNCHANGED <<online, sockets, rooms, now, scenario, unreadCount, lastMessage,
                 defaultGroup>>

\* mountMessageReadEvent -> markAsRead: findById and early returns
ReadReceive(s, m) ==
  /\ sockets[s].live /\ sockets[s].pc = "ready"
  /\ LET u == sockets[s].user
         res == ReadCheck(messages[m], u)
     IN /\ IF res = "proceed"
           THEN Start([BaseOp EXCEPT !.op = "read", !.m = m, !.u = u, !.conn = s])
           ELSE UNCHANGED inflight
        /\ Done("read", m, u, s, res)
  /\ Emit(<<>>)
  /\ UNCHANGED <<messages, online, sockets, rooms, now, unreadCount, lastMessage,
                 defaultGroup>>

ReadBegin(s, m) ==
  /\ ReadReceive(s, m)
  /\ BagCardinality(inflight') <= MaxInflight
  /\ UNCHANGED scenario

\* markAsRead: findByIdAndUpdate and the emits
ReadWrite(o) ==
  /\ o.op = "read"
  /\ Finish(o)
  /\ LET updated == ReadUpdate(messages[o.m], o.u, now)
     IN IF ~messages[o.m].exists
        THEN /\ UNCHANGED messages
             /\ Emit(<<>>)
             /\ Done("read", o.m, o.u, o.conn, "notUpdated")
        ELSE /\ messages' = [messages EXCEPT ![o.m] = updated]
             /\ Emit(ReadCalls(updated, o.m))
             /\ Done("read", o.m, o.u, o.conn, "updated")
  /\ UNCHANGED <<online, sockets, rooms, now, scenario, unreadCount, lastMessage,
                 defaultGroup>>

\* ------------------------------------------------------------------ send path
\* sendMessage: messageRepo.createMessage, then updateMessageStatus(SENT)
\* up to its findById
sendMessage(u, c) ==
  /\ \E m \in DOMAIN messages :
       /\ ~messages[m].exists
       /\ \A k \in DOMAIN messages : k < m => messages[k].exists
       /\ messages' = [messages EXCEPT ![m] = createMessage(u, c, now)]
       /\ Start([BaseOp EXCEPT !.op = "status", !.m = m, !.u = u, !.c = c,
                               !.st = "sent", !.origin = "send"])
       /\ Done("send", m, u, NoConn, "created")
  /\ Emit(<<>>)
  /\ UNCHANGED <<online, sockets, rooms, now, scenario, unreadCount, lastMessage,
                 defaultGroup>>

\* sendMessage, one request at a time
SendCreate(u, c) == Room /\ sendMessage(u, c)

\* updateMessageStatus: findByIdAndUpdate(updateData) and the emits; the
\* send path runs on after its SENT update
StatusWrite(o) ==
  /\ o.op = "status"
  /\ IF o.origin = "send"
     THEN Become(o, [BaseOp EXCEPT !.op = "sendRest", !.m = o.m, !.u = o.u,
                                      !.c = o.c])
     ELSE Finish(o)
  /\ LET updated == StatusUpdate(messages[o.m], o.st, o.rc, o.reason, now)
     IN IF ~messages[o.m].exists
        THEN /\ UNCHANGED messages
             /\ Emit(<<>>)
             /\ Done("status", o.m, o.u, o.conn, "notFound")
        ELSE /\ messages' = [messages EXCEPT ![o.m] = updated]
             /\ Emit(StatusCalls(updated, o.m, o.st)
                     \o (IF o.origin = "retry"
                         THEN <<Call("socket", o.conn, "messageRetrySuccess", o.m, "")>>
                         ELSE <<>>))
             /\ Done("status", o.m, o.u, o.conn, o.st)
  /\ UNCHANGED <<online, sockets, rooms, now, scenario, unreadCount, lastMessage,
                 defaultGroup>>

\* sendMessage: the message-received fanout and the sent confirmation
ReceivedCalls(doc, m) ==
  LET ps == SelectSeq(participants[doc.chat], LAMBDA p : p # doc.sender)
      direct == [i \in 1..Len(ps) |-> Call("user", ps[i], "messageReceived", m, "")]
      inRoom(p) == \E s \in rooms[doc.chat] : sockets[s].live /\ sockets[s].user = p
      absent == SelectSeq(ps, LAMBDA p : ~inRoom(p))
      fallback == [i \in 1..Len(absent) |->
                     Call("user", absent[i], "messageReceived", m, "")]
  IN (IF rooms[doc.chat] # {}
      THEN <<[Call("roomExcept", doc.chat, "messageReceived", m, "")
                EXCEPT !.except = doc.sender]>>
      ELSE direct)
     \o fallback
     \o <<Call("user", doc.sender, "messageSent", m, "sent")>>

\* sendMessage: chatRepo.updateChatFields({lastMessage}) succeeded; then
\* updateConversationOnNewMessage: MessageModel.findById with its early
\* return, and the update of the last-message fields of the chat; both
\* writes store the id of this message
updateConversationOnNewMessage(o) ==
  /\ o.op = "sendRest"
  /\ lastMessage' = [lastMessage EXCEPT ![o.c] = o.m]
  /\ Become(o, [o EXCEPT !.op = IF messages[o.m].exists THEN "ledger" ELSE "sendTail"])
  /\ Emit(<<>>)
  /\ Done("ledger", o.m, o.u, NoConn,
          IF messages[o.m].exists THEN "begin" ELSE "notFound")
  /\ UNCHANGED <<messages, online, sockets, rooms, now, scenario, unreadCount,
                 defaultGroup>>

\* the forEach over chat.participants: the sender's count set to 0, every
\* other participant's count raised by one
Counted(counts, c, senderId) ==
  [p \in Users |-> IF ~Has(participants[c], p) THEN counts[p]
                   ELSE IF p = senderId THEN 0
                   ELSE counts[p] + 1]

\* updateConversationOnNewMessage: chat = ChatModel.findById(chatId) and the
\* new counts computed from that copy
LedgerRead(o) ==
  /\ o.op = "ledger"
  /\ Become(o, [o EXCEPT !.op = "ledgerWrite",
                         !.counts = Counted(unreadCount[o.c], o.c, o.u)])
  /\ Emit(<<>>)
  /\ Done("ledger", o.m, o.u, NoConn, "read")
  /\ UNCHANGED <<messages, online, sockets, rooms, now, scenario, unreadCount,
                 lastMessage, defaultGroup>>

\* the conversation-updated event to every participant but the sender
ConversationCalls(c, senderId, m) ==
  LET ps == SelectSeq(participants[c], LAMBDA p : p # senderId)
  IN [i \in 1..Len(ps) |-> Call("room", ps[i], "conversationUpdated", m, "")]

\* updateConversationOnNewMessage: ChatModel.findByIdAndUpdate(chatId,
\* {unreadCount}) with the whole map, and the conversation-updated events
LedgerWrite(o) ==
  /\ o.op = "ledgerWrite"
  /\ unreadCount' = [unreadCount EXCEPT ![o.c] = o.counts]
  /\ Become(o, [o EXCEPT !.op = "sendTail", !.counts = <<>>])
  /\ Emit(ConversationCalls(o.c, o.u, o.m))
  /\ Done("ledger", o.m, o.u, NoConn, "written")
  /\ UNCHANGED <<messages, online, sockets, rooms, now, scenario, lastMessage,
                 defaultGroup>>

\* sendMessage: every step after the conversation update succeeded
SendComplete(o) ==
  /\ o.op = "sendTail"
  /\ Finish(o)
  /\ Emit(ReceivedCalls([sender |-> o.u, chat |-> o.c], o.m))
  /\ Done("send", o.m, o.u, NoConn, "ok")
  /\ UNCHANGED <<messages, online, sockets, rooms, now, scenario, unreadCount,
                 lastMessage, defaultGroup>>

\* sendMessage: a step after message creation threw; the catch block calls
\* updateMessageStatus(FAILED), which reads retryCount with findById
SendThrow(o, reason) ==
  /\ o.op \in {"sendRest", "sendTail"}
  /\ IF messages[o.m].exists
     THEN Become(o, [BaseOp EXCEPT !.op = "status", !.m = o.m, !.u = o.u,
                                      !.st = "failed", !.reason = reason,
                                      !.rc = messages[o.m].retryCount,
                                      !.origin = "sendFail"])
     ELSE Finish(o)
  /\ Emit(<<>>)
  /\ Done("sendThrow", o.m, o.u, NoConn, "")
  /\ UNCHANGED <<messages, online, sockets, rooms, now, scenario, unreadCount,
                 lastMessage, defaultGroup>>

\* mountMessageRetryEvent -> retryMessage: findById and the status test,
\* then updateMessageStatus(PENDING) up to its findById
retryMessage(s, m) ==
  /\ sockets[s].live /\ sockets[s].pc = "ready"
  /\ LET u == sockets[s].user
         ok == messages[m].exists /\ messages[m].status = "failed"
     IN IF ok
        THEN /\ Start([BaseOp EXCEPT !.op = "status", !.m = m, !.u = u, !.conn = s,
                                     !.st = "pending", !.origin = "retry"])
             /\ Emit(<<>>)
             /\ Done("retry", m, u, s, "proceed")
        ELSE /\ UNCHANGED inflight
             /\ Emit(<<Call("socket", s, "messageRetryFailed", m, "")>>)
             /\ Done("retry", m, u, s, "refused")
  /\ UNCHANGED <<messages, online, sockets, rooms, now, unreadCount, lastMessage,
                 defaultGroup>>

Retry(s, m) ==
  /\ retryMessage(s, m)
  /\ BagCardinality(inflight') <= MaxInflight
  /\ UNCHANGED scenario

\* ------------------------------------------------------------- bulk read
\* controller markAllMessagesAsRead: the participant test, then
\* messageRepo.markAllMessagesAsRead (updateMany); last.n is the
\* modifiedCount of its result
markAllMessagesAsRead(u, c) ==
  /\ Has(participants[c], u)
  /\ LET sel == {m \in DOMAIN messages : AllReadFilter(messages[m], c, u)}
     IN /\ messages' = [m \in DOMAIN messages |->
                          IF m \in sel THEN AllReadUpdate(messages[m], u, now)
                          ELSE messages[m]]
        /\ IF sel # {}
           THEN /\ Room
                /\ Start([BaseOp EXCEPT !.op = "allRead", !.u = u, !.c = c,
                                        !.n = Cardinality(sel)])
           ELSE UNCHANGED inflight
        /\ last' = [op |-> "allRead", m |-> 0, u |-> u, conn |-> NoConn,
                    res |-> "updated", n |-> Cardinality(sel)]
  /\ Emit(<<>>)
  /\ UNCHANGED <<online, sockets, rooms, now, unreadCount, lastMessage, defaultGroup>>

MarkAllRead(u, c) ==
  /\ markAllMessagesAsRead(u, c)
  /\ UNCHANGED scenario

\* MessageService.markAllMessagesAsRead: after chatRepo.getChatByChatId,
\* one emitSocketEvent per other participant, addressed to that user's id
AllReadEmit(o) ==
  /\ o.op = "allRead"
  /\ Finish(o)
  /\ LET ps == SelectSeq(participants[o.c], LAMBDA p : p # o.u)
     IN Emit([i \in 1..Len(ps) |-> Call("room", ps[i], "messageRead", 0, "")])
  /\ last' = [op |-> "allRead", m |-> 0, u |-> o.u, conn |-> NoConn,
              res |-> "emitted", n |-> o.n]
  /\ UNCHANGED <<messages, online, sockets, rooms, now, scenario, unreadCount,
                 lastMessage, defaultGroup>>

\* ----------------------------------------------------------------- system
\* Every handler of the system; a failing send fails before its conversation
\* update here, and at either point in SpecLedger.
Next ==
  \/ Tick
  \/ \E s \in Conns, u \in Users : Connect(s, u)
  \/ \E s \in Conns : ConnectOnline(s)
  \/ \E s \in Conns : autoJoinUserChats(s)
  \/ \E s \in Conns : ConnectSweepRead(s)
  \/ \E s \in Conns : ConnectSweepWrite(s)
  \/ \E s \in Conns, c \in Chats : JoinChat(s, c)
  \/ \E o \in Ops : JoinSweepRead(o)
  \/ \E o \in Ops : JoinSweepWrite(o)
  \/ \E s \in Conns : Disconnect(s)
  \/ \E o \in Ops : DisconnectWrite(o)
  \/ \E s \in Conns, m \in Msgs : DeliveredBegin(s, m)
  \/ \E o \in Ops : DeliveredWrite(o)
  \/ \E s \in Conns, m \in Msgs : ReadBegin(s, m)
  \/ \E o \in Ops : ReadWrite(o)
  \/ \E u \in Users, c \in Chats : SendCreate(u, c)
  \/ \E o \in Ops : StatusWrite(o)
  \/ \E o \in Ops : updateConversationOnNewMessage(o)
  \/ \E o \in Ops : LedgerRead(o)
  \/ \E o \in Ops : LedgerWrite(o)
  \/ \E o \in Ops : SendComplete(o)
  \/ \E o \in Ops, r \in Reasons : o.op = "sendRest" /\ SendThrow(o, r)
  \/ \E s \in Conns, m \in Msgs : Retry(s, m)
  \/ \E u \in Users, c \in Chats : MarkAllRead(u, c)
  \/ \E o \in Ops : AllReadEmit(o)

Spec == Init /\ [][Next]_vars

\* --------------------------------------------- duplicate concurrent receipts
\* Two receipts of one kind for one message by one user, sent over the
\* user's connections, with the stored document drawn from the documents
\* the handlers can leave behind.
Receipts == {"delivered", "read"}

ArraysOf(sender) == {<<>>} \cup {<<u>> : u \in Users \ {sender}}

StoredDocs ==
  {[createMessage(snd, c, 0) EXCEPT
      !.status = st, !.deliveredTo = d, !.readBy = r,
      !.sentAt = IF st = "pending" THEN Unset ELSE 0,
      !.deliveredAt = IF d = <<>> THEN Unset ELSE 0,
      !.readAt = IF r # <<>> /\ r = d THEN 0 ELSE Unset,
      !.retryCount = IF st = "failed" THEN 1 ELSE 0,
      !.failureReason = IF st = "failed" THEN "network" ELSE ""]
   : snd \in Users, c \in Chats, st \in MessageStatus \ {"sending"},
     d \in UNION {ArraysOf(x) : x \in Users}, r \in UNION {ArraysOf(x) : x \in Users}}

InitDup ==
  \E doc \in StoredDocs, k \in Receipts, u \in Users :
    /\ ~Has(doc.deliveredTo, doc.sender) /\ ~Has(doc.readBy, doc.sender)
    /\ doc.status = "delivered" => doc.deliveredTo # <<>>
    /\ doc.status = "read" => doc.readBy # <<>> /\ doc.deliveredTo # <<>>
    /\ messages = [m \in Msgs |-> IF m = 1 THEN doc ELSE NoMsg]
    /\ online = [x \in Accounts |-> x = u]
    /\ sockets = [s \in Conns |->
                    [Closed EXCEPT !.live = TRUE, !.user = u, !.pc = "ready"]]
    /\ rooms = [r \in RoomIds |->
                  IF r = u \/ r \in getCurrentUserAllChats(u) THEN Conns ELSE {}]
    /\ inflight = EmptyBag
    /\ unreadCount = NoCounts
    /\ lastMessage = LastOf(messages)
    /\ defaultGroup = <<>>
    /\ now = 0
    /\ calls = <<>>
    /\ emitted = EmptyBag
    /\ last = [op |-> "init", m |-> 0, u |-> NoUser, conn |-> NoConn, res |-> "", n |-> 0]
    /\ scenario = [kind |-> k, m |-> 1, u |-> u, before |-> doc, n |-> 0,
                   overlap |-> FALSE]

\* one of the two receipts arrives on a connection of the user
DupReceive(s) ==
  /\ scenario.n < 2
  /\ IF scenario.kind = "delivered"
     THEN DeliveredReceive(s, scenario.m)
     ELSE ReadReceive(s, scenario.m)
  /\ scenario' = [scenario EXCEPT !.n = @ + 1,
                                  !.overlap = @ \/ (inflight # EmptyBag /\ last'.res = "proceed")]

NextDup ==
  \/ Tick
  \/ \E s \in Conns : DupReceive(s)
  \/ \E o \in Ops : DeliveredWrite(o)
  \/ \E o \in Ops : ReadWrite(o)

SpecDup == InitDup /\ [][NextDup]_vars

\* what one receipt of the kind, applied alone to the document, stores
SingleReceipt(doc, k, u, t) ==
  IF k = "delivered"
  THEN IF DeliveredCheck(doc, u) = "proceed"
       THEN DeliveredUpdate(doc, u, doc.status, t) ELSE doc
  ELSE IF ReadCheck(doc, u) = "proceed" THEN ReadUpdate(doc, u, t) ELSE doc

\* ================================================================= claims
Stored == {m \in DOMAIN messages : messages[m].exists}

\* the progress order of the statuses; failed stands outside it
Rank(st) ==
  CASE st = "pending" -> 0
    [] st = "sending" -> 1
    [] st = "sent" -> 2
    [] st = "delivered" -> 3
    [] st = "read" -> 4
    [] OTHER -> 5

\* C1: for every message, readBy is a subset of deliveredTo in every
\* reachable state, whichever entry point recorded the read (socket
\* messageRead, mark-all-read).
C1_ReadBySubsetDeliveredTo ==
  \A m \in Stored : ToSet(messages[m].readBy) \subseteq ToSet(messages[m].deliveredTo)

\* C2: the sender of a message is never a member of its deliveredTo or its
\* readBy, in every state reachable through send, receipts, mark-all-read
\* and the connect and join sweeps.
C2_SenderNeverRecipient ==
  \A m \in Stored :
    /\ ~Has(messages[m].deliveredTo, messages[m].sender)
    /\ ~Has(messages[m].readBy, messages[m].sender)

\* C2 witness: the sender sent a receipt for its own message, which by now
\* has a recipient recorded in both arrays
C2_Witness ==
  /\ last.op \in {"delivered", "read"} /\ last.res = "skipSelf"
  /\ messages[last.m].deliveredTo # <<>>
  /\ messages[last.m].readBy # <<>>

\* C3: the status of a message only moves forward in the order pending,
\* sending, sent, delivered, read, or to failed; the only step to an earlier
\* status is failed -> pending.
C3_StatusOnlyForward ==
  [][\A m \in Msgs :
       (messages[m].exists /\ messages'[m].exists
        /\ messages'[m].status # messages[m].status)
       => \/ messages'[m].status = "failed"
          \/ (messages[m].status = "failed" /\ messages'[m].status = "pending")
          \/ (messages[m].status # "failed"
              /\ Rank(messages'[m].status) > Rank(messages[m].status))]_vars

\* C4: once the read receipt of a user other than the sender has been
\* applied to a message, one or more times, readBy and deliveredTo each
\* hold the user exactly once and the status is read.
C4_ReadReceiptRecorded ==
  (/\ last.op = "read"
   /\ last.res \in {"updated", "already"})
  => /\ Count(messages[last.m].readBy, last.u) = 1
     /\ Count(messages[last.m].deliveredTo, last.u) = 1
     /\ messages[last.m].status = "read"

\* C5: a delivery receipt or a read receipt sent by the sender of the
\* message changes nothing in the store, starts no write, emits no event and
\* reports no error.
C5_SenderReceiptNoOp ==
  [][(/\ last'.op \in {"delivered", "read"}
      /\ last' # last
      /\ messages[last'.m].exists
      /\ messages[last'.m].sender = last'.u)
     => /\ messages' = messages
        /\ inflight' = inflight
        /\ calls' = <<>>
        /\ emitted' = EmptyBag
        /\ last'.res = "skipSelf"]_vars

\* C5 witness: the sender's receipt for its own stored message was handled
C5_Witness ==
  /\ last.op \in {"delivered", "read"}
  /\ messages[last.m].exists
  /\ messages[last.m].sender = last.u
  /\ last.res = "skipSelf"
  /\ messages[last.m].status \in {"sent", "delivered"}

\* C6: two duplicate receipts of one kind for one message by one user,
\* in every interleaving of their findById and findByIdAndUpdate steps,
\* leave the stored status, deliveredTo and readBy that one such receipt
\* applied alone to the same document leaves.
C6_DuplicateReceiptsConverge ==
  (scenario.n = 2 /\ inflight = EmptyBag)
  => LET doc == messages[scenario.m]
         one == SingleReceipt(scenario.before, scenario.kind, scenario.u, now)
     IN /\ doc.status = one.status
        /\ doc.deliveredTo = one.deliveredTo
        /\ doc.readBy = one.readBy

\* C6 witness: the second receipt passed its findById while the first was
\* still waiting for its write, and both writes have been applied
C6_Witness ==
  /\ scenario.n = 2 /\ inflight = EmptyBag
  /\ scenario.overlap
  /\ last.res = "updated"
  /\ messages[scenario.m] # scenario.before

\* a user's connection handlers and disconnect handlers have all finished
\* their status write
Settled(u) ==
  /\ \A s \in SocketsOf(u) : sockets[s].pc # "joined"
  /\ \A o \in Ops : ~(o.op = "disconnect" /\ o.u = u)

\* C7: a user's online status is true exactly when the user has at least
\* one live connection, once the connect and disconnect handlers of the
\* user's connections have done their status write.
C7_OnlineIffConnected ==
  \A u \in Users : Settled(u) => (online[u] <=> SocketsOf(u) # {})

\* the delivery of call i of the last step to connection s
DeliveryOf(i, s) ==
  [call |-> i, to |-> s, event |-> calls[i].event, m |-> calls[i].m,
   status |-> calls[i].status]

\* the calls of the last step that address an event about a stored message
\* to the room of its conversation
ChatCalls ==
  {i \in 1..Len(calls) : /\ calls[i].fn = "room"
                         /\ calls[i].target \in Chats
                         /\ calls[i].m \in Stored}

\* C8: an event addressed to a conversation whose room has no subscribed
\* connection reaches every live connection of every participant other
\* than the sender of the message.
C8_EmptyRoomFallback ==
  \A i \in ChatCalls :
    rooms[calls[i].target] = {}
    => \A p \in ToSet(participants[calls[i].target]) \ {messages[calls[i].m].sender} :
         \A s \in SocketsOf(p) : CopiesIn(DeliveryOf(i, s), emitted) >= 1

C10_ConnectSweepDelivers ==
  (last.op \in {"sweep", "sweepDone"} /\ last.res = "updated")
  => LET doc == messages[last.m]
     IN /\ Has(doc.deliveredTo, last.u)
        /\ doc.status = "delivered"
        /\ \A s \in SocketsOf(doc.sender) :
             \E d \in BagToSet(emitted) :
               d.to = s /\ d.event = "messageStatusUpdate" /\ d.m = last.m

\* ------------------------------------------------------- bulk read alone
\* Mark-all-read called twice in a row by one participant on a conversation
\* whose messages are drawn from the documents the handlers can leave
\* behind; no message is sent in between.
BulkMsgs == 2

BulkDocs ==
  {doc \in StoredDocs :
     /\ ~Has(doc.deliveredTo, doc.sender) /\ ~Has(doc.readBy, doc.sender)
     /\ doc.status = "delivered" => doc.deliveredTo # <<>>
     /\ doc.status = "read" => doc.readBy # <<>> /\ doc.deliveredTo # <<>>}

InitBulk ==
  \E u \in Users, c \in Chats :
    /\ messages \in [1..BulkMsgs -> BulkDocs]
    /\ online = [x \in Accounts |-> TRUE]
    /\ sockets = [s \in Conns |->
                    [Closed EXCEPT !.live = TRUE, !.pc = "ready",
                                   !.user = IF s = "s1" THEN "u1" ELSE "u2"]]
    /\ rooms = [r \in RoomIds |->
                  IF r \in Chats THEN Conns
                  ELSE {s \in Conns : r = (IF s = "s1" THEN "u1" ELSE "u2")}]
    /\ inflight = EmptyBag
    /\ unreadCount = NoCounts
    /\ lastMessage = LastOf(messages)
    /\ defaultGroup = <<>>
    /\ now = 0
    /\ calls = <<>>
    /\ emitted = EmptyBag
    /\ last = [op |-> "init", m |-> 0, u |-> NoUser, conn |-> NoConn, res |-> "", n |-> 0]
    /\ scenario = [kind |-> "bulk", u |-> u, c |-> c, start |-> messages,
                   counts |-> <<>>]

\* the next call of the two; its modifiedCount is kept
BulkCall ==
  /\ Len(scenario.counts) < 2
  /\ markAllMessagesAsRead(scenario.u, scenario.c)
  /\ scenario' = [scenario EXCEPT !.counts = Append(@, last'.n)]

NextBulk ==
  \/ Tick
  \/ BulkCall
  \/ \E o \in Ops : AllReadEmit(o)

SpecBulk == InitBulk /\ [][NextBulk]_vars

\* the messages the first call had to select
BulkUnread ==
  {m \in DOMAIN scenario.start :
     AllReadFilter(scenario.start[m], scenario.c, scenario.u)}

C12_BulkReadAsReceipt ==
  Len(scenario.counts) >= 1
  => \A m \in BulkUnread :
       /\ Has(messages[m].readBy, scenario.u)
       /\ Has(messages[m].deliveredTo, scenario.u)
       /\ messages[m].readAt # Unset
       /\ messages[m].status = "read"

\* ------------------------------------------- failure recording and retry
\* updateMessageStatus(FAILED) and retries applied to one stored message,
\* with the document drawn from the documents the handlers can leave behind.
MaxFails == 2

\* updateMessageStatus(FAILED, failureReason) up to its findById, which
\* reads retryCount
recordFailure(m, reason) ==
  /\ IF messages[m].exists
     THEN /\ Start([BaseOp EXCEPT !.op = "status", !.m = m,
                                  !.u = messages[m].sender, !.st = "failed",
                                  !.reason = reason,
                                  !.rc = messages[m].retryCount,
                                  !.origin = "fail"])
          /\ Done("fail", m, messages[m].sender, NoConn, "proceed")
     ELSE /\ UNCHANGED inflight
          /\ Done("fail", m, NoUser, NoConn, "notFound")
  /\ Emit(<<>>)
  /\ UNCHANGED <<messages, online, sockets, rooms, now, unreadCount, lastMessage,
                 defaultGroup>>

InitFail ==
  \E doc \in BulkDocs :
    /\ messages = [m \in Msgs |-> IF m = 1 THEN doc ELSE NoMsg]
    /\ online = [x \in Accounts |-> TRUE]
    /\ sockets = [s \in Conns |->
                    [Closed EXCEPT !.live = TRUE, !.pc = "ready",
                                   !.user = IF s = "s1" THEN "u1" ELSE "u2"]]
    /\ rooms = [r \in RoomIds |->
                  IF r \in Chats THEN Conns
                  ELSE {s \in Conns : r = (IF s = "s1" THEN "u1" ELSE "u2")}]
    /\ inflight = EmptyBag
    /\ unreadCount = NoCounts
    /\ lastMessage = LastOf(messages)
    /\ defaultGroup = <<>>
    /\ now = 0
    /\ calls = <<>>
    /\ emitted = EmptyBag
    /\ last = [op |-> "init", m |-> 0, u |-> NoUser, conn |-> NoConn, res |-> "", n |-> 0]
    /\ scenario = [kind |-> "fail", m |-> 1, start |-> doc, hist |-> <<>>,
                   overlap |-> FALSE]

Fails(hist) == Cardinality({i \in 1..Len(hist) : hist[i] = "fail"})

\* a failure of the message is recorded
FailBegin(reason) ==
  /\ Fails(scenario.hist) < MaxFails
  /\ recordFailure(scenario.m, reason)
  /\ scenario' = [scenario EXCEPT !.hist = Append(@, "fail"),
                                  !.overlap = @ \/ inflight # EmptyBag]

\* the sender's client asks for a retry of the message
RetryBegin(s) ==
  /\ Len(scenario.hist) < 2 * MaxFails
  /\ sockets[s].user = messages[scenario.m].sender
  /\ retryMessage(s, scenario.m)
  /\ scenario' = [scenario EXCEPT
                    !.hist = IF last'.res = "proceed" THEN Append(@, "retry") ELSE @,
                    !.overlap = @ \/ (inflight # EmptyBag /\ last'.res = "proceed")]

NextFail ==
  \/ Tick
  \/ \E r \in Reasons : FailBegin(r)
  \/ \E s \in Conns : RetryBegin(s)
  \/ \E o \in Ops : StatusWrite(o)

SpecFail == InitFail /\ [][NextFail]_vars

\* C13: a failure recording sets status failed, failureReason to the given
\* reason and raises retryCount by exactly 1; a retry sets status pending
\* and leaves retryCount alone; so applied one after the other, each
\* complete before the next begins, the recordings and retries leave
\* retryCount at its first value plus the number of failures (failure,
\* retry, failure on a new message: 2).
C13_FailureAndRetry ==
  (~scenario.overlap /\ inflight = EmptyBag /\ scenario.hist # <<>>)
  => LET doc == messages[scenario.m]
         final == scenario.hist[Len(scenario.hist)]
     IN /\ doc.retryCount = scenario.start.retryCount + Fails(scenario.hist)
        /\ final = "fail" => doc.status = "failed" /\ doc.failureReason \in Reasons
        /\ final = "retry" => doc.status = "pending"

\* C13 witness: failure, retry, failure, one after the other, on a message
\* that had never failed
C13_Witness ==
  /\ scenario.hist = <<"fail", "retry", "fail">>
  /\ ~scenario.overlap /\ inflight = EmptyBag
  /\ scenario.start.retryCount = 0
  /\ messages[scenario.m].retryCount = 2
  /\ messages[scenario.m].status = "failed"

\* C14: once n failure recordings on a message have completed, in any
\* interleaving of their findById and findByIdAndUpdate steps, retryCount
\* has grown by exactly n.
C14_EveryFailureCounted ==
  inflight = EmptyBag
  => messages[scenario.m].retryCount
       = scenario.start.retryCount + Fails(scenario.hist)

\* ------------------------------------------- receipts racing a deletion
\* controller deleteMessage: getMessageById, the participant and owner
\* tests
DeleteBegin(u, m) ==
  /\ messages[m].exists
  /\ Has(participants[messages[m].chat], u)
  /\ messages[m].sender = u
  /\ Start([BaseOp EXCEPT !.op = "delete", !.m = m, !.u = u,
                          !.c = messages[m].chat,
                          !.n = lastMessage[messages[m].chat]])
  /\ Emit(<<>>)
  /\ Done("delete", m, u, NoConn, "proceed")
  /\ UNCHANGED <<messages, online, sockets, rooms, now, scenario, unreadCount,
                 lastMessage, defaultGroup>>

\* controller deleteMessage: findByIdAndDelete, the repair of the chat's
\* lastMessage when the chat read at the start named this message, then
\* the messageDeleted event to the room of the conversation
DeleteWrite(o) ==
  /\ o.op = "delete"
  /\ Finish(o)
  /\ IF messages[o.m].exists
     THEN /\ messages' = [messages EXCEPT ![o.m] = NoMsg]
          /\ lastMessage' = IF o.n = o.m
                            THEN [lastMessage EXCEPT ![o.c] = getLastMessage(messages', o.c)]
                            ELSE lastMessage
          /\ Emit(<<Call("room", o.c, "messageDeleted", o.m, "")>>)
          /\ Done("delete", o.m, o.u, NoConn, "deleted")
     ELSE /\ UNCHANGED <<messages, lastMessage>>
          /\ Emit(<<>>)
          /\ Done("delete", o.m, o.u, NoConn, "error")
  /\ UNCHANGED <<online, sockets, rooms, now, scenario, unreadCount, defaultGroup>>

\* both users connected, their connection handlers finished
BothConnected ==
  /\ online = [x \in Accounts |-> TRUE]
  /\ sockets = [s \in Conns |->
                  [Closed EXCEPT !.live = TRUE, !.pc = "ready",
                                 !.user = IF s = "s1" THEN "u1" ELSE "u2"]]
  /\ rooms = [r \in RoomIds |->
                IF r \in Chats THEN Conns
                ELSE {s \in Conns : r = (IF s = "s1" THEN "u1" ELSE "u2")}]

InitGone ==
  /\ \E doc \in BulkDocs \cup {NoMsg} :
       messages = [m \in Msgs |-> IF m = 1 THEN doc ELSE NoMsg]
  /\ BothConnected
  /\ inflight = EmptyBag
  /\ unreadCount = NoCounts
  /\ lastMessage = LastOf(messages)
  /\ defaultGroup = <<>>
  /\ now = 0
  /\ calls = <<>>
  /\ emitted = EmptyBag
  /\ last = [op |-> "init", m |-> 0, u |-> NoUser, conn |-> NoConn, res |-> "", n |-> 0]
  /\ scenario = [kind |-> "gone"]

\* a receipt and a deletion can wait on the datastore at the same time
MaxGone == 2

NextGone ==
  \/ Tick
  \/ \E s \in Conns, m \in Msgs :
       /\ DeliveredReceive(s, m)
       /\ BagCardinality(inflight') <= MaxGone
       /\ UNCHANGED scenario
  \/ \E o \in Ops : DeliveredWrite(o)
  \/ \E s \in Conns, m \in Msgs :
       /\ ReadReceive(s, m)
       /\ BagCardinality(inflight') <= MaxGone
       /\ UNCHANGED scenario
  \/ \E o \in Ops : ReadWrite(o)
  \/ \E u \in Users, m \in Msgs :
       /\ DeleteBegin(u, m)
       /\ BagCardinality(inflight') <= MaxGone
  \/ \E o \in Ops : DeleteWrite(o)

SpecGone == InitGone /\ [][NextGone]_vars

\* C15: a delivery or read receipt for a message that does not exist, or
\* that was deleted between the receipt's findById and findByIdAndUpdate,
\* changes no stored state, emits no event, reports no error to the
\* connection and leaves the connection open.
C15_MissingMessageReceipt ==
  [][(/\ last'.op \in {"delivered", "read"}
      /\ last' # last
      /\ ~messages[last'.m].exists)
     => /\ messages' = messages
        /\ online' = online
        /\ sockets' = sockets
        /\ rooms' = rooms
        /\ calls' = <<>>
        /\ emitted' = EmptyBag
        /\ last'.res \in {"notFound", "notUpdated"}]_vars

\* C15 witness: the update of a receipt found its message deleted
C15_Witness ==
  /\ last.op \in {"delivered", "read"}
  /\ last.res = "notUpdated"
  /\ ~messages[last.m].exists
  /\ sockets[last.conn].live

\* ------------------------------------------------------ sweeps run again
\* Connect sweeps and join sweeps run one after the other over a store in
\* which no message is sent: one message drawn from the documents the
\* handlers can leave behind, or a backlog of one message more than the
\* join sweep takes in a batch.
Backlog == JoinSweepLimit + 1

InitSweep ==
  /\ \/ \E doc \in BulkDocs : messages = [m \in 1..1 |-> doc]
     \/ messages = [m \in 1..Backlog |->
                      [createMessage("u1", "c1", 0) EXCEPT !.status = "sent",
                                                         !.sentAt = 0]]
  /\ \/ BothConnected
     \/ /\ online = [x \in Accounts |-> FALSE]
        /\ sockets = [s \in Conns |-> Closed]
        /\ rooms = [r \in RoomIds |-> {}]
  /\ inflight = EmptyBag
  /\ unreadCount = NoCounts
  /\ lastMessage = LastOf(messages)
  /\ defaultGroup = <<>>
  /\ now = 0
  /\ calls = <<>>
  /\ emitted = EmptyBag
  /\ last = [op |-> "init", m |-> 0, u |-> NoUser, conn |-> NoConn, res |-> "", n |-> 0]
  /\ scenario = [kind |-> "sweep"]

\* no connection handler and no join handler is under way
Quiet ==
  /\ inflight = EmptyBag
  /\ \A s \in Conns : sockets[s].pc \in {"closed", "ready"}

NextSweep ==
  \/ Tick
  \/ \E s \in Conns, u \in Users : Quiet /\ Connect(s, u)
  \/ \E s \in Conns : ConnectOnline(s)
  \/ \E s \in Conns : autoJoinUserChats(s)
  \/ \E s \in Conns : ConnectSweepRead(s)
  \/ \E s \in Conns : ConnectSweepWrite(s)
  \/ \E s \in Conns, c \in Chats : Quiet /\ JoinChat(s, c)
  \/ \E o \in Ops : JoinSweepRead(o)
  \/ \E o \in Ops : JoinSweepWrite(o)

SpecSweep == InitSweep /\ [][NextSweep]_vars

\* the last step ended a connect sweep / a join sweep
ConnectSweepEnded ==
  \/ last.op = "sweepDone"
  \/ last.op = "connect" /\ last.res = "ready"

JoinSweepEnded ==
  \/ last.op = "joinDone"
  \/ last.op = "join" /\ last.res = "joined"

\* a step that delivers an event about a message
MessageEvent == \E i \in 1..Len(calls) : calls[i].m # 0

\* C16: when a connect sweep of u has ended, every message within its
\* window and batch limit, of a conversation of u, from another author,
\* holds u in deliveredTo, whatever its status was.
C16_SweepDeliversAll ==
  (ConnectSweepEnded /\ Cardinality(Stored) <= ConnectSweepLimit)
  => \A m \in Stored :
       (/\ messages[m].chat \in getCurrentUserAllChats(last.u)
        /\ messages[m].sender # last.u
        /\ messages[m].createdAt >= now - ConnectSweepWindow)
       => Has(messages[m].deliveredTo, last.u)

\* C17 as stated: when a sweep of u has ended, the same sweep run again
\* selects no message, so it changes nothing and emits nothing.
C17_SweepRunAgainSelectsNothing ==
  /\ ConnectSweepEnded => pendingMessages(last.u) = <<>>
  /\ JoinSweepEnded => \A c \in Chats : undeliveredMessages(last.u, c) = <<>>

\* C17 amended: the same holds when the store holds no more messages than
\* the batch limit of the sweep, and a sweep that selects nothing changes
\* no message and emits no event about a message.
C17_SweepIdempotentWithinLimit ==
  /\ [](/\ (ConnectSweepEnded /\ Cardinality(Stored) <= ConnectSweepLimit)
           => pendingMessages(last.u) = <<>>
        /\ (JoinSweepEnded /\ Cardinality(Stored) <= JoinSweepLimit)
           => \A c \in Chats : undeliveredMessages(last.u, c) = <<>>)
  /\ [][(\/ last'.op = "connect" /\ last'.res = "ready"
         \/ last'.op = "join" /\ last'.res = "joined")
        => messages' = messages /\ ~MessageEvent']_vars

\* C17 witness: a connect sweep that found nothing to do has ended on a
\* second connection of a user to whom an earlier sweep delivered
C17_Witness ==
  /\ last.op = "connect" /\ last.res = "ready"
  /\ Cardinality(SocketsOf(last.u)) = 2
  /\ \E m \in Stored : /\ messages[m].status = "sent"
                       /\ messages[m].deliveredAt = 1
                       /\ Has(messages[m].deliveredTo, last.u)

\* C18: the online presence events are broadcast only by a connect that
\* found the user without a live connection, and the offline presence
\* events only by a disconnect that left the user without one.
C18_PresenceOnFirstAndLast ==
  [][\A i \in 1..Len(calls') :
       calls'[i].fn = "broadcast" =>
         /\ calls'[i].event = "userOnline" => sockets[calls'[i].target].prior = 0
         /\ calls'[i].event = "userOffline" => last'.n = 0]_vars

\* ------------------------------------------------------------- presence
\* controller updateUserStatus: userRepo.findByIdAndUpdate(status), then
\* the two io.sockets.emit and the echo to the user's personal room,
\* marked self
updateUserStatus(u, st) ==
  /\ online' = [online EXCEPT ![u] = st]
  /\ LET word == IF st THEN "online" ELSE "offline"
     IN Emit(<<Call("all", u, "userStatusUpdate", 0, word),
               Call("all", u, IF st THEN "userOnline" ELSE "userOffline", 0, word),
               Call("room", u, "userStatusUpdate", 0, "self")>>)
  /\ Done("status", 0, u, NoConn, IF st THEN "online" ELSE "offline")
  /\ UNCHANGED <<messages, sockets, rooms, inflight, now, scenario, unreadCount,
                 lastMessage, defaultGroup>>

\* Connections, disconnections and status updates over an empty store.
InitPresence ==
  /\ Init
  /\ scenario = [kind |-> "none", m |-> 0, u |-> NoUser, before |-> NoMsg, n |-> 0,
                 overlap |-> FALSE]

NextPresence ==
  \/ Tick
  \/ \E s \in Conns, u \in Users : Connect(s, u)
  \/ \E s \in Conns : ConnectOnline(s)
  \/ \E s \in Conns : autoJoinUserChats(s)
  \/ \E s \in Conns : Disconnect(s)
  \/ \E o \in Ops : DisconnectWrite(o)
  \/ \E u \in Users, st \in BOOLEAN : updateUserStatus(u, st)

SpecPresence == InitPresence /\ [][NextPresence]_vars

PresenceEvents == {"userOnline", "userOffline", "userStatusUpdate"}

\* C19: a presence event about a user reaches a connection of that user
\* only as the echo marked as a self-update, on the connect and disconnect
\* path and on the status-update endpoint.
C19_PresenceNotToSelf ==
  \A d \in BagToSet(emitted) :
    (d.event \in PresenceEvents /\ sockets[d.to].user = last.u)
    => d.status = "self"

\* ---------------------------------------------------- unread counters
MaxSends == 2

\* Concurrent sendMessage requests to a chat whose counters start anywhere
\* in 0..1, with both users connected.
InitUnread ==
  /\ BothConnected
  /\ messages = [m \in 1..MaxSends |-> NoMsg]
  /\ inflight = EmptyBag
  /\ now = 0
  /\ calls = <<>>
  /\ emitted = EmptyBag
  /\ last = [op |-> "init", m |-> 0, u |-> NoUser, conn |-> NoConn, res |-> "", n |-> 0]
  /\ unreadCount \in [Chats -> [Users -> 0..1]]
  /\ lastMessage = NoLast
  /\ defaultGroup = <<>>
  /\ scenario = [kind |-> "unread", start |-> unreadCount]

NextUnread ==
  \/ Tick
  \/ \E u \in Users, c \in Chats : sendMessage(u, c)
  \/ \E o \in Ops : StatusWrite(o)
  \/ \E o \in Ops : updateConversationOnNewMessage(o)
  \/ \E o \in Ops : LedgerRead(o)
  \/ \E o \in Ops : LedgerWrite(o)
  \/ \E o \in Ops : SendComplete(o)

SpecUnread == InitUnread /\ [][NextUnread]_vars

\* messages sent to chat c by users other than u
SentByOthers(c, u) ==
  {m \in Stored : messages[m].chat = c /\ messages[m].sender # u}

\* C20: once every send has run to its end, the unread counter of a
\* participant who sent nothing is its earlier value plus the number of
\* messages the other users sent to the conversation.
C20_UnreadCountsEverySend ==
  inflight = EmptyBag =>
    \A c \in Chats, u \in Users :
      (Has(participants[c], u) /\ SentByOthers(c, u) = Stored)
      => unreadCount[c][u] = scenario.start[c][u] + Cardinality(SentByOthers(c, u))

\* ------------------------------------------------- conversation ledger
\* ConversationService.markConversationAsRead: chat = ChatModel.findById,
\* and the test of the caller's count in that copy
markConversationAsRead(u, c) ==
  /\ IF unreadCount[c][u] > 0
     THEN Start([BaseOp EXCEPT !.op = "conversationRead", !.u = u, !.c = c,
                               !.counts = [unreadCount[c] EXCEPT ![u] = 0]])
     ELSE UNCHANGED inflight
  /\ Emit(<<>>)
  /\ Done("conversationRead", 0, u, NoConn,
          IF unreadCount[c][u] > 0 THEN "read" ELSE "nothing")
  /\ UNCHANGED <<messages, online, sockets, rooms, now, scenario, unreadCount,
                 lastMessage, defaultGroup>>

\* the conversation-read event to every participant
ConversationReadCalls(c) ==
  [i \in 1..Len(participants[c]) |->
     Call("room", participants[c][i], "conversationRead", 0, "")]

\* markConversationAsRead: ChatModel.findByIdAndUpdate(chatId, {unreadCount})
\* with the whole map, and the conversation-read events
ConversationReadWrite(o) ==
  /\ o.op = "conversationRead"
  /\ unreadCount' = [unreadCount EXCEPT ![o.c] = o.counts]
  /\ Finish(o)
  /\ Emit(ConversationReadCalls(o.c))
  /\ Done("conversationRead", 0, o.u, NoConn, "written")
  /\ UNCHANGED <<messages, online, sockets, rooms, now, scenario, lastMessage,
                 defaultGroup>>

MaxLedgerOps == 2

\* Sends and mark-conversation-read requests running side by side.
NextLedger ==
  \/ Tick
  \/ \E u \in Users, c \in Chats :
       sendMessage(u, c) /\ BagCardinality(inflight') <= MaxLedgerOps
  \/ \E o \in Ops : StatusWrite(o)
  \/ \E o \in Ops : updateConversationOnNewMessage(o)
  \/ \E o \in Ops : LedgerRead(o)
  \/ \E o \in Ops : LedgerWrite(o)
  \/ \E o \in Ops : SendComplete(o)
  \/ \E o \in Ops, r \in Reasons : SendThrow(o, r)
  \/ \E u \in Users, c \in Chats :
       markConversationAsRead(u, c) /\ BagCardinality(inflight') <= MaxLedgerOps
  \/ \E o \in Ops : ConversationReadWrite(o)

SpecLedger == InitUnread /\ [][NextLedger]_vars

\* C21: the write of a mark-conversation-read sets the caller's unread
\* counter to 0 and leaves the counter of every other participant as it
\* was, whatever sends are being processed at that moment.
C21_MarkReadResetsOnlyCaller ==
  [][(last'.op = "conversationRead" /\ last'.res = "written")
     => \A c \in Chats, p \in Users :
          unreadCount'[c][p] = IF p = last'.u THEN 0 ELSE unreadCount[c][p]]_vars

\* C22: when a mark-all-read of a participant has run to its end, that
\* participant's unread counter for the conversation is 0.
C22_MarkAllReadResetsCounter ==
  (/\ last.op = "allRead"
   /\ last.res = "emitted" \/ (last.res = "updated" /\ last.n = 0))
  => \A c \in Chats : Has(participants[c], last.u) => unreadCount[c][last.u] = 0

\* the steps of a delivery receipt: from a client, from the connect sweep
\* and from the join sweep
DeliverySteps == {"delivered", "sweep", "sweepDone", "joinSweep", "joinDone"}

\* C23: no step of a delivery receipt, sent by a client or made by a sweep,
\* changes the last message or any unread counter of a conversation.
C23_DeliveryLeavesLedger ==
  [][last'.op \in DeliverySteps
     => /\ unreadCount' = unreadCount
        /\ lastMessage' = lastMessage]_vars

\* C23 witness: a client's delivery receipt was written for the last
\* message of a conversation in which the recipient has an unread message
C23_Witness ==
  /\ last.op = "delivered" /\ last.res = "updated"
  /\ lastMessage[messages[last.m].chat] = last.m
  /\ unreadCount[messages[last.m].chat][last.u] > 0

\* ------------------------------------------------------ room membership
\* A participant on s1 and the outsider on s2, both connection handlers
\* finished: each connection is in its personal room, s1 in its chats.
InitOutsider ==
  /\ \E u \in Users :
       /\ sockets = [s \in Conns |->
                       [Closed EXCEPT !.live = TRUE, !.pc = "ready",
                                      !.user = IF s = "s1" THEN u ELSE Outsider]]
       /\ rooms = [r \in RoomIds |->
                     IF r = u \/ r \in getCurrentUserAllChats(u) THEN {"s1"}
                     ELSE IF r = Outsider THEN {"s2"}
                     ELSE {}]
       /\ online = [x \in Accounts |-> x \in {u, Outsider}]
  /\ messages = [m \in Msgs |-> NoMsg]
  /\ inflight = EmptyBag
  /\ unreadCount = NoCounts
  /\ lastMessage = NoLast
  /\ defaultGroup = <<>>
  /\ now = 0
  /\ calls = <<>>
  /\ emitted = EmptyBag
  /\ last = [op |-> "init", m |-> 0, u |-> NoUser, conn |-> NoConn, res |-> "", n |-> 0]
  /\ scenario = [kind |-> "outsider"]

NextOutsider ==
  \/ Tick
  \/ \E s \in Conns, c \in Chats : JoinChat(s, c)
  \/ \E o \in Ops : JoinSweepRead(o)
  \/ \E o \in Ops : JoinSweepWrite(o)
  \/ \E u \in Users, c \in Chats : SendCreate(u, c)
  \/ \E o \in Ops : StatusWrite(o)
  \/ \E o \in Ops : updateConversationOnNewMessage(o)
  \/ \E o \in Ops : LedgerRead(o)
  \/ \E o \in Ops : LedgerWrite(o)
  \/ \E o \in Ops : SendComplete(o)

SpecOutsider == InitOutsider /\ [][NextOutsider]_vars

WriteFails(o) ==
  /\ o.op \in {"delivered", "read", "status"}
  /\ IF o.op = "status" /\ o.origin = "send"
     THEN Become(o, [BaseOp EXCEPT !.op = "sendRest", !.m = o.m, !.u = o.u,
                                      !.c = o.c])
     ELSE Finish(o)
  /\ Emit(IF o.op = "status" /\ o.origin = "retry"
          THEN <<Call("socket", o.conn, "messageRetrySuccess", o.m, "")>>
          ELSE <<>>)
  /\ Done(o.op, o.m, o.u, o.conn, "writeFailed")
  /\ UNCHANGED <<messages, online, sockets, rooms, now, scenario, unreadCount,
                 lastMessage, defaultGroup>>

\* Receipts and retries of one stored message, each write succeeding or
\* failing.
NextWriteFail ==
  \/ Tick
  \/ \E s \in Conns, m \in Msgs : DeliveredBegin(s, m)
  \/ \E o \in Ops : DeliveredWrite(o)
  \/ \E s \in Conns, m \in Msgs : ReadBegin(s, m)
  \/ \E o \in Ops : ReadWrite(o)
  \/ \E s \in Conns, m \in Msgs : Retry(s, m)
  \/ \E o \in Ops : StatusWrite(o)
  \/ \E o \in Ops : WriteFails(o)

SpecWriteFail == InitGone /\ [][NextWriteFail]_vars

\* C25: a failed write of a delivery receipt, read receipt or status
\* update is reported as an error to the connection that asked for it, and
\* nothing else is emitted.
C25_WriteFailureReported ==
  last.res = "writeFailed"
  => /\ Len(calls) = 1
     /\ calls[1].fn = "socket" /\ calls[1].target = last.conn
     /\ calls[1].event = "socketError"

\* the calls of the last step that address an event to a user
UserCalls == {i \in 1..Len(calls) : calls[i].fn = "user"}

\* C26: an event addressed to a user reaches each live connection of that
\* user once and no other connection; with no live connection of the user
\* nothing is delivered for it and no error event is emitted.
C26_UserEventExact ==
  \A i \in UserCalls :
    /\ \A s \in Conns :
         CopiesIn(DeliveryOf(i, s), emitted)
           = IF s \in SocketsOf(calls[i].target) THEN 1 ELSE 0
    /\ SocketsOf(calls[i].target) = {}
       => \A d \in BagToSet(emitted) : d.event # "socketError"

\* C26 witness: one step addressed an event to a user without a live
\* connection and another to a user with two live connections
C26_Witness ==
  \E i, j \in UserCalls :
    /\ SocketsOf(calls[i].target) = {}
    /\ Cardinality(SocketsOf(calls[j].target)) = 2
    /\ \A s \in Conns : CopiesIn(DeliveryOf(j, s), emitted) = 1

\* ------------------------------------------------------- default group
\* DEFAULT_GROUP_ID: the _id every created default group gets
DefaultGroupId == "defaultGroup"

\* ChatModel.findOne({name: DEFAULT_GROUP_NAME, isDefault: true}): the
\* position of the first match, 0 for none
findDefault(docs) ==
  LET I == {i \in 1..Len(docs) : docs[i].isDefault}
  IN IF I = {} THEN 0 ELSE CHOOSE i \in I : \A k \in I : i <= k

\* ChatModel.findById(DEFAULT_GROUP_ID): position, 0 for none
findGroupById(docs) ==
  LET I == {i \in 1..Len(docs) : docs[i].id = DefaultGroupId}
  IN IF I = {} THEN 0 ELSE CHOOSE i \in I : \A k \in I : i <= k

\* an update that appends the user whether or not it is in the list
AddParticipantPush(docs, userId) ==
  [docs EXCEPT ![findDefault(docs)].participants = Append(@, userId)]

\* ChatModel.updateOne(..., {$addToSet: {participants: userId}})
AddParticipant(docs, userId) ==
  [docs EXCEPT ![findDefault(docs)].participants = AddToSet(@, userId)]

\* initializeDefaultGroup: the findOne and its early return
initializeDefaultGroup ==
  /\ IF findDefault(defaultGroup) # 0
     THEN UNCHANGED inflight
     ELSE Start([BaseOp EXCEPT !.op = "groupCreate"])
  /\ Emit(<<>>)
  /\ Done("groupInit", 0, NoUser, NoConn,
          IF findDefault(defaultGroup) # 0 THEN "exists" ELSE "create")
  /\ UNCHANGED <<messages, online, sockets, rooms, now, scenario, unreadCount,
                 lastMessage, defaultGroup>>

\* ChatModel.create with the fixed _id; on the duplicate key error 11000 the
\* catch block turns the document of that id into the default group
CreateGroup(docs) ==
  IF findGroupById(docs) = 0
  THEN Append(docs, [id |-> DefaultGroupId, isDefault |-> TRUE, participants |-> <<>>])
  ELSE [docs EXCEPT ![findGroupById(docs)].isDefault = TRUE]

\* initializeDefaultGroup: ChatModel.create and the catch block; called by
\* addUserToDefaultGroup, the caller runs on to its updateOne
GroupCreate(o) ==
  /\ o.op = "groupCreate"
  /\ defaultGroup' = CreateGroup(defaultGroup)
  /\ IF o.u = NoUser
     THEN Finish(o)
     ELSE Become(o, [o EXCEPT !.op = "groupAdd"])
  /\ Emit(<<>>)
  /\ Done("groupInit", 0, o.u, NoConn,
          IF findGroupById(defaultGroup) = 0 THEN "created" ELSE "duplicate")
  /\ UNCHANGED <<messages, online, sockets, rooms, now, scenario, unreadCount,
                 lastMessage>>

\* addUserToDefaultGroup: the findOne; without a default group
\* initializeDefaultGroup is called, up to its own findOne
addUserToDefaultGroup(userId) ==
  /\ Start([BaseOp EXCEPT !.u = userId,
                          !.op = IF findDefault(defaultGroup) # 0 THEN "groupAdd"
                                 ELSE "groupAddInit"])
  /\ Emit(<<>>)
  /\ Done("groupAdd", 0, userId, NoConn, "begin")
  /\ UNCHANGED <<messages, online, sockets, rooms, now, scenario, unreadCount,
                 lastMessage, defaultGroup>>

\* initializeDefaultGroup called by addUserToDefaultGroup: its findOne
GroupAddInit(o) ==
  /\ o.op = "groupAddInit"
  /\ Become(o, [o EXCEPT !.op = IF findDefault(defaultGroup) # 0 THEN "groupAdd"
                                ELSE "groupCreate"])
  /\ Emit(<<>>)
  /\ Done("groupInit", 0, o.u, NoConn,
          IF findDefault(defaultGroup) # 0 THEN "exists" ELSE "create")
  /\ UNCHANGED <<messages, online, sockets, rooms, now, scenario, unreadCount,
                 lastMessage, defaultGroup>>

\* addUserToDefaultGroup: the updateOne and the returned boolean: true when
\* a default group took the update or already held the user; last.n is the
\* number of participants the group had before
GroupAdd(o) ==
  /\ o.op = "groupAdd"
  /\ Finish(o)
  /\ IF findDefault(defaultGroup) # 0
     THEN /\ defaultGroup' = AddParticipant(defaultGroup, o.u)
          /\ last' = [op |-> "groupAdd", m |-> 0, u |-> o.u, conn |-> NoConn,
                      res |-> "true",
                      n |-> Len(defaultGroup[findDefault(defaultGroup)].participants)]
     ELSE /\ UNCHANGED defaultGroup
          /\ Done("groupAdd", 0, o.u, NoConn, "false")
  /\ Emit(<<>>)
  /\ UNCHANGED <<messages, online, sockets, rooms, now, scenario, unreadCount,
                 lastMessage>>

MaxGroupOps == 2

\* Server start and user registrations: the default group is initialized
\* and users are added to it, side by side.
NextGroup ==
  \/ Tick
  \/ initializeDefaultGroup /\ BagCardinality(inflight') <= MaxGroupOps
  \/ \E o \in Ops : GroupCreate(o)
  \/ \E u \in Accounts :
       addUserToDefaultGroup(u) /\ BagCardinality(inflight') <= MaxGroupOps
  \/ \E o \in Ops : GroupAddInit(o)
  \/ \E o \in Ops : GroupAdd(o)

SpecGroup == Init /\ [][NextGroup]_vars

\* C27: adding a user the default group already holds reports success and
\* leaves the participant list as it was, the user in it once; an
\* initialization that finds the default group leaves the documents as
\* they were, and there is never a second default group.
C27_DefaultGroupIdempotent ==
  /\ [](Len(defaultGroup) <= 1)
  /\ [][/\ (/\ last'.op = "groupAdd" /\ last'.res # "begin" /\ last' # last
            /\ findDefault(defaultGroup) # 0
            /\ Has(defaultGroup[findDefault(defaultGroup)].participants, last'.u))
           => /\ last'.res = "true"
              /\ defaultGroup' = defaultGroup
              /\ Count(defaultGroup'[1].participants, last'.u) = 1
        /\ (last'.op = "groupInit" /\ last' # last /\ findDefault(defaultGroup) # 0)
           => defaultGroup' = defaultGroup]_vars

\* C27 witness: an add of a user to the one default group has returned
\* true and left the two participants the group had, the user among them
C27_Witness ==
  /\ last.op = "groupAdd" /\ last.res = "true"
  /\ Len(defaultGroup) = 1
  /\ last.n = 2 /\ Len(defaultGroup[1].participants) = 2
  /\ Count(defaultGroup[1].participants, last.u) = 1

\* C28: a stored message carries a failureReason only while its status is
\* failed.
C28_ReasonOnlyWhenFailed ==
  \A m \in Stored : messages[m].failureReason # "" => messages[m].status = "failed"

\* C29: the update of a delivery receipt adds the recipient and makes the
\* status delivered exactly when the status it replaces is pending or
\* sending; every other status stays as it is.
C29_DeliveredOnlyFromPending ==
  [][(last'.op \in DeliverySteps /\ last'.res = "updated" /\ last' # last)
     => /\ Has(messages'[last'.m].deliveredTo, last'.u)
        /\ messages'[last'.m].status
             = IF messages[last'.m].status \in {"pending", "sending"}
               THEN "delivered"
               ELSE messages[last'.m].status]_vars

\* C30: once deliveredAt of a message is set no delivery receipt and no
\* read receipt changes it, and once readAt is set no read receipt changes
\* it.
C30_FirstTimesKept ==
  [][(last'.op \in DeliverySteps \cup {"read"} /\ last' # last)
     => \A m \in Stored :
          /\ messages[m].deliveredAt # Unset
             => messages'[m].deliveredAt = messages[m].deliveredAt
          /\ messages[m].readAt # Unset
             => messages'[m].readAt = messages[m].readAt]_vars

\* ------------------------------------------------- send with lost writes
\* Sends, one request at a time, in which the status update of
\* updateMessageStatus succeeds or throws inside the service.
NextSendFail ==
  \/ Tick
  \/ \E u \in Users, c \in Chats : SendCreate(u, c)
  \/ \E o \in Ops : StatusWrite(o)
  \/ \E o \in Ops : WriteFails(o)
  \/ \E o \in Ops : updateConversationOnNewMessage(o)
  \/ \E o \in Ops : LedgerRead(o)
  \/ \E o \in Ops : LedgerWrite(o)
  \/ \E o \in Ops : SendComplete(o)
  \/ \E o \in Ops, r \in Reasons : SendThrow(o, r)

SpecSendFail == InitUnread /\ [][NextSendFail]_vars

\* C31: a message is created with status pending, empty deliveredTo and
\* readBy and retryCount 0, and a send that has answered with success has
\* left its message with sentAt set and a status other than pending.
C31_SentWhenSendSucceeds ==
  /\ (last.op = "send" /\ last.res = "created")
     => /\ messages[last.m].status = "pending"
        /\ messages[last.m].deliveredTo = <<>>
        /\ messages[last.m].readBy = <<>>
        /\ messages[last.m].retryCount = 0
  /\ (last.op = "send" /\ last.res = "ok" /\ messages[last.m].exists)
     => /\ messages[last.m].status # "pending"
        /\ messages[last.m].sentAt # Unset

\* C32: a message whose status becomes failed had status sending or sent
\* before: no failure recording, that of a throwing send included, moves a
\* pending, delivered or read message to failed.
C32_FailedOnlyFromSent ==
  [][\A m \in Msgs :
       (/\ messages[m].exists /\ messages'[m].exists
        /\ messages'[m].status = "failed"
        /\ messages[m].status # "failed")
       => messages[m].status \in {"sending", "sent"}]_vars

\* the steps of a receipt: a delivery receipt or a client's read receipt
ReceiptSteps == DeliverySteps \cup {"read"}

\* the calls of the last step that carry an event about its message
ReceiptCalls == {i \in 1..Len(calls) : last.m # 0 /\ calls[i].m = last.m}

\* C33: a delivery or read receipt that updated its message emits an event
\* addressed to the room of the message's conversation and exactly one
\* message-status-update addressed to the sender, which every live
\* connection of the sender receives; any other step of a receipt emits no
\* event about the message.
C33_ReceiptEvents ==
  last.op \in ReceiptSteps
  => IF last.res = "updated"
     THEN LET doc == messages[last.m]
          IN /\ \E i \in ReceiptCalls :
                  calls[i].fn = "room" /\ calls[i].target = doc.chat
             /\ Cardinality({i \in ReceiptCalls :
                               /\ calls[i].fn = "user"
                               /\ calls[i].target = doc.sender
                               /\ calls[i].event = "messageStatusUpdate"}) = 1
             /\ \A s \in SocketsOf(doc.sender) :
                  \E d \in BagToSet(emitted) :
                    d.to = s /\ d.m = last.m /\ d.event = "messageStatusUpdate"
     ELSE ReceiptCalls = {}

\* C34: no message-delivered event of a recipient for a message is emitted
\* after the message-read event of that recipient for that message.  readAt
\* is set by the write of a read receipt and by nothing else, and that write
\* emits the message-read event; so a step that emits message-delivered for
\* recipient u finds u outside readBy or readAt unset.
C34_DeliveredNotAfterRead ==
  [][(/\ last'.op \in DeliverySteps /\ last'.res = "updated"
      /\ now' = now
      /\ \E i \in 1..Len(calls') :
           calls'[i].event = "messageDelivered" /\ calls'[i].m = last'.m)
     => ~(/\ Has(messages[last'.m].readBy, last'.u)
          /\ messages[last'.m].readAt # Unset)]_vars

\* the receipts of one connection that have read the store and wait for
\* their write
PendingReceipts(s) ==
  {o \in Ops : o.conn = s /\ o.op \in {"delivered", "read"}}

\* C35: the receipts of one connection are handled one after the other: the
\* handler of a receipt makes no datastore read while an earlier receipt of
\* the same connection still waits for its write.
C35_ConnectionEventsInOrder ==
  \A s \in Conns :
    /\ Cardinality(PendingReceipts(s)) <= 1
    /\ \A o \in PendingReceipts(s) : CopiesIn(o, inflight) = 1

\* C36: when no send and no delete of a conversation is under way, the
\* last-message fields of the conversation name the most recently created
\* message still stored for it.
C36_LastMessageIsNewest ==
  inflight = EmptyBag
  => \A c \in Chats : lastMessage[c] = getLastMessage(messages, c)

\* ------------------------------------------------- sweeps with failures
MaxSweepFails == 1

\* one message more than the connect sweep takes in a batch
SweepBacklog == ConnectSweepLimit + 1

InitSweepFail ==
  /\ messages = [m \in 1..SweepBacklog |->
                   [createMessage("u1", "c1", 0) EXCEPT !.status = "sent",
                                                      !.sentAt = 0]]
  /\ \/ BothConnected
     \/ /\ online = [x \in Accounts |-> FALSE]
        /\ sockets = [s \in Conns |-> Closed]
        /\ rooms = [r \in RoomIds |-> {}]
  /\ inflight = EmptyBag
  /\ unreadCount = NoCounts
  /\ lastMessage = LastOf(messages)
  /\ defaultGroup = <<>>
  /\ now = 0
  /\ calls = <<>>
  /\ emitted = EmptyBag
  /\ last = [op |-> "init", m |-> 0, u |-> NoUser, conn |-> NoConn, res |-> "", n |-> 0]
  /\ scenario = [kind |-> "sweepFail", fails |-> 0, failed |-> 0]

\* markAsDelivered called by the connect sweep: findById or
\* findByIdAndUpdate throws; the catch block of markAsDelivered logs the
\* error and returns, and the for loop of the sweep goes on
ConnectSweepFails(s) ==
  /\ sockets[s].live /\ sockets[s].pc = "sweep"
  /\ scenario.fails < MaxSweepFails
  /\ ConnectSweepNext(s, <<>>, Head(sockets[s].todo), "failed")
  /\ scenario' = [scenario EXCEPT !.fails = @ + 1, !.failed = Head(sockets[s].todo)]
  /\ UNCHANGED <<messages, online, rooms, inflight, now, unreadCount, lastMessage,
                 defaultGroup>>

\* markAsDelivered called by the join sweep: findById or findByIdAndUpdate
\* throws
JoinSweepFails(o) ==
  /\ o.op = "sweep"
  /\ scenario.fails < MaxSweepFails
  /\ JoinSweepNext(o, <<>>, Head(o.todo), "failed")
  /\ scenario' = [scenario EXCEPT !.fails = @ + 1, !.failed = Head(o.todo)]
  /\ UNCHANGED <<messages, online, sockets, rooms, now, unreadCount, lastMessage,
                 defaultGroup>>

\* the steps a connection handler or a join handler takes once it has
\* started: each runs when the datastore answers
SweepStep ==
  \/ \E s \in Conns : ConnectOnline(s)
  \/ \E s \in Conns : autoJoinUserChats(s)
  \/ \E s \in Conns : ConnectSweepRead(s)
  \/ \E s \in Conns : ConnectSweepWrite(s)
  \/ \E s \in Conns : ConnectSweepFails(s)
  \/ \E o \in Ops : JoinSweepRead(o)
  \/ \E o \in Ops : JoinSweepWrite(o)
  \/ \E o \in Ops : JoinSweepFails(o)

NextSweepFail ==
  \/ \E s \in Conns, u \in Users : Quiet /\ Connect(s, u)
  \/ \E s \in Conns, c \in Chats : Quiet /\ JoinChat(s, c)
  \/ SweepStep

\* the datastore answers every call in the end, with a result or an error
SpecSweepFail == InitSweepFail /\ [][NextSweepFail]_vars /\ WF_vars(SweepStep)

\* C37: a sweep holds at most its batch limit of messages (50 on connect,
\* 20 on join); a failing receipt moves the sweep to its next message; and
\* every sweep ends: a connection handler or join handler that has started
\* (none starts while another runs) reaches its end, so that again and
\* again no handler is under way.
C37_SweepBoundedAndCompletes ==
  /\ [](/\ \A s \in Conns : Len(sockets[s].todo) <= ConnectSweepLimit
        /\ \A o \in Ops : Len(o.todo) <= JoinSweepLimit)
  /\ [][(last'.res = "failed" /\ last' # last)
        => /\ messages' = messages
           /\ last'.op \in {"sweep", "sweepDone", "joinSweep", "joinDone"}
           /\ \A s \in Conns :
                sockets[s].pc = "sweep"
                => \/ sockets'[s].pc = "ready"
                   \/ sockets'[s].pc = "sweep"
                      /\ Len(sockets'[s].todo) >= Len(sockets[s].todo) - 1]_vars
  /\ []<>Quiet

\* C37 witness: a connect sweep over the backlog ended although the receipt
\* of one of its messages failed: the messages after the failed one are
\* delivered, the failed one and the one beyond the batch limit are not
C37_Witness ==
  /\ last.op = "sweepDone"
  /\ scenario.fails = 1 /\ scenario.failed = 2
  /\ sockets[last.conn].pc = "ready"
  /\ \A m \in 3..ConnectSweepLimit : Has(messages[m].deliveredTo, last.u)
  /\ ~Has(messages[2].deliveredTo, last.u)
  /\ ~Has(messages[SweepBacklog].deliveredTo, last.u)

\* C38: every member of deliveredTo and of readBy of a message is a
\* participant of the message's conversation, whoever sent the receipt or
\* joined the room.
C38_RecipientsAreParticipants ==
  \A m \in Stored :
    ToSet(messages[m].deliveredTo) \cup ToSet(messages[m].readBy)
      \subseteq ToSet(participants[messages[m].chat])

\* how many times the last step delivered the event about message m to
\* connection s
Received(event, m, s) ==
  LET D == {d \in BagToSet(emitted) : d.event = event /\ d.m = m /\ d.to = s}
  IN BagCardinality([d \in D |-> CopiesIn(d, emitted)])

\* C39: when a send has succeeded, every live connection of every
\* participant other than the sender has received the message-received
\* event exactly once, and no other connection has received it.
C39_ReceivedExactlyOnce ==
  (last.op = "send" /\ last.res = "ok" /\ messages[last.m].exists)
  => \A s \in Conns :
       sockets[s].live
       => Received("messageReceived", last.m, s)
            = IF /\ Has(participants[messages[last.m].chat], sockets[s].user)
                 /\ sockets[s].user # messages[last.m].sender
              THEN 1 ELSE 0

\* C40: at most one message-delivered event is emitted for a message and a
\* recipient.  A recipient stands in deliveredTo without standing in readBy
\* only through the write of a delivery receipt, which emitted the event
\* for the pair; so a step that emits message-delivered for recipient u
\* finds u outside deliveredTo or inside readBy.
C40_DeliveredEventOnce ==
  [][(/\ last'.op \in DeliverySteps /\ last'.res = "updated"
      /\ now' = now
      /\ \E i \in 1..Len(calls') :
           calls'[i].event = "messageDelivered" /\ calls'[i].m = last'.m)
     => \/ ~Has(messages[last'.m].deliveredTo, last'.u)
        \/ Has(messages[last'.m].readBy, last'.u)]_vars

====
